---- MODULE Spec2Model ----
(***************************************************************************)
(* Package retry: backoff strategies (Constant, Linear, Exponential,       *)
(* Decay, Jitter) and the iterator Attempt(ctx, b), which yields           *)
(* (attempt index, delay) pairs and waits for the delay or for the         *)
(* context's cancellation between two pairs.                               *)
(*                                                                         *)
(* One traversal of the iterator is a process whose position is pc:        *)
(*   "check"  retry.go:82  if ctx.Err() != nil                             *)
(*   "delay"  retry.go:85  d := b.Delay(i)                                 *)
(*   "yield"  retry.go:86  if !yield(i, d)                                 *)
(*   "zero"   retry.go:90  if d == 0                                       *)
(*   "select" retry.go:93  select { <-ctx.Done() ; <-time.Tick(d) }        *)
(*   "done"   the iterator function returned                               *)
(*   "panic"  b.Delay panicked                                             *)
(* The context is driven from outside (Cancel, Timeout); time passes       *)
(* while the iterator waits (Tick).                                        *)
(*                                                                         *)
(* The table tests of the strategies are a second process ("test"): they   *)
(* call Delay(0), Delay(1), ... of one strategy and collect the results.   *)
(***************************************************************************)
EXTENDS Integers, Sequences, FiniteSets, TLC

\* ---------------------------------------------------------------- bounds
\* Durations are signed integers of DurBits bits (int64 in the code).
DurBits == 4
\* Largest configured duration (Constant, Linear, Exponential, Decay.I).
MaxDur == 2
\* Largest Decay.H.
MaxH == 2
\* Largest Jitter.J.
MaxJ == 2
\* Largest timeout of a context made by context.WithTimeout.
MaxTimeout == 2
\* Largest index at which a consumer breaks out of the loop.
MaxStop == 3
\* Largest attempt index the model lets the loop reach.
MaxAttempts == 6

\* ------------------------------------------------- duration arithmetic
RECURSIVE Pow2(_)
Pow2(n) == IF n = 0 THEN 1 ELSE 2 * Pow2(n - 1)

\* Two's complement wrap-around of the signed duration type.
Wrap(x) == ((x + Pow2(DurBits - 1)) % Pow2(DurBits)) - Pow2(DurBits - 1)

\* x << n of a signed duration: bits shifted out are lost; 0 once n >= width.
Shl(x, n) == IF n >= DurBits THEN 0 ELSE Wrap(x * Pow2(n))

\* x >> n of a signed duration: arithmetic shift (floor), sign fill.
Shr(x, n) == IF n >= DurBits THEN (IF x < 0 THEN 0 - 1 ELSE 0) ELSE x \div Pow2(n)

\* Go's integer division n / h for n >= 0, h > 0.
Quo(n, h) == n \div h

\* ---------------------------------------------------------- strategies
\* A strategy value: base strategy kind with its parameters (D: the
\* duration; H: Decay's half-life), optionally decorated by Jitter{J, B}.
DurVals == (0 - MaxDur)..MaxDur

Bases ==
    [kind : {"Constant", "Linear", "Exponential"}, D : DurVals, H : {1}]
        \cup [kind : {"Decay"}, D : DurVals, H : 0..MaxH]

Plain == {[jitter |-> FALSE, J |-> 0, B |-> base] : base \in Bases}

Strategies ==
    Plain \cup {[jitter |-> TRUE, J |-> j, B |-> base] : j \in 0..MaxJ, base \in Bases}

ConstantDelay(c, n) == c

LinearDelayBuggy(l, n) == Wrap(l * n)
LinearDelay(l, n) == Wrap(l * (n + 1))

ExponentialDelayOffByOne(e, n) == Shl(Wrap(e * 1), n + 1)
ExponentialDelay(e, n) == Shl(Wrap(e * 1), n)

DecayDelayNoBlocks(I, H, n) == Shr(I, n)
DecayDelayRoundsUp(I, H, n) ==
    IF Quo(n, H) >= DurBits THEN (IF I > 0 THEN 1 ELSE 0)
    ELSE 0 - ((0 - I) \div Pow2(Quo(n, H)))
DecayDelay(I, H, n) == Shr(I, Quo(n, H))

\* Decay.Delay panics on a division by zero.
DecayPanics(H, n) == H = 0

BaseDelay(base, n) ==
    CASE base.kind = "Constant" -> ConstantDelay(base.D, n)
      [] base.kind = "Linear" -> LinearDelay(base.D, n)
      [] base.kind = "Exponential" -> ExponentialDelay(base.D, n)
      [] base.kind = "Decay" -> DecayDelay(base.D, base.H, n)

BasePanics(base, n) == base.kind = "Decay" /\ DecayPanics(base.H, n)

\* rand.Int63n(J) draws from 0..J-1 and panics when J <= 0.
Draws(J) == 0..(J - 1)
JitterPanics(J) == J <= 0

\* Jitter.Delay with the random draw r.
JitterDelayUncentred(J, inner, r) == Wrap(inner + r)
JitterDelay(J, inner, r) == Wrap(Wrap(inner + r) - (J \div 2))

\* The draws b.Delay can make ({0} for a strategy that draws nothing).
DelayDraws(s) == IF s.jitter THEN Draws(s.J) ELSE {0}

DelayPanics(s, n) == BasePanics(s.B, n) \/ (s.jitter /\ JitterPanics(s.J))

Delay(s, n, r) ==
    IF s.jitter THEN JitterDelay(s.J, BaseDelay(s.B, n), r) ELSE BaseDelay(s.B, n)

\* --------------------------------------------------------------- state
VARIABLES
    b,          \* the Backoff passed to Attempt
    ctxKind,    \* "todo": never cancelled; "cancel": WithCancel; "timeout": WithTimeout
    timeout,    \* the duration given to context.WithTimeout (0 for the other kinds)
    cleft,      \* time left until the timeout context's deadline
    cancelled,  \* ctx.Err() != nil, ctx.Done() closed
    stopAt,     \* the consumer breaks at this index (NeverStops: it does not)
    pc,         \* position of the traversal
    i,          \* loop variable i
    d,          \* local d
    ticking,    \* time.Tick(d) returned a channel (d > 0); nil otherwise
    tleft,      \* time left until that channel delivers
    yielded,    \* the pairs passed to yield so far
    delayCalls, \* number of calls of b.Delay so far
    waits,      \* number of times the select was entered
    why,        \* which return ended the traversal
    cancelPc,   \* position of the traversal when the context was cancelled
    cancelLen,  \* number of pairs yielded when the context was cancelled
    got,        \* the delays a table test has collected
    elapsed,    \* time passed since the select was last entered
    traversal,  \* 1: first traversal of the sequence; 2: second traversal
    first       \* the pairs the first traversal yielded, once it is over

vars == <<b, ctxKind, timeout, cleft, cancelled, stopAt, pc, i, d, ticking, tleft,
          yielded, delayCalls, waits, why, cancelPc, cancelLen, got, elapsed, traversal, first>>

seqVars == <<traversal, first>>
cfgVars == <<b, ctxKind, timeout, stopAt, seqVars>>
histVars == <<yielded, delayCalls, waits>>
ctxVars == <<cleft, cancelled, cancelPc, cancelLen>>

\* A consumer that never breaks: its stop index is out of the loop's reach.
NeverStops == MaxAttempts + 1

\* What every process starts with.
Fresh ==
    /\ i = 0
    /\ d = 0
    /\ ticking = FALSE
    /\ tleft = 0
    /\ yielded = <<>>
    /\ delayCalls = 0
    /\ waits = 0
    /\ why = "running"
    /\ cancelPc = IF cancelled THEN "before" ELSE "not"
    /\ cancelLen = 0
    /\ got = <<>>
    /\ elapsed = 0
    /\ traversal = 1
    /\ first = <<>>

\* seq := Attempt(ctx, b); for i, d := range seq { if i == stopAt { break } }
AttemptInit ==
    /\ b \in Strategies
    /\ ctxKind \in {"todo", "cancel", "timeout"}
    /\ timeout \in (IF ctxKind = "timeout" THEN 0..MaxTimeout ELSE {0})
    /\ cleft = timeout
    /\ cancelled \in (IF ctxKind = "todo" THEN {FALSE} ELSE BOOLEAN)
    /\ stopAt \in {NeverStops} \cup 0..MaxStop
    /\ pc = "check"
    /\ Fresh

\* A table test of TestConstant, TestLinear, TestExponential, TestDecay.
TestInit ==
    /\ b \in Plain
    /\ ctxKind = "todo"
    /\ timeout = 0
    /\ cleft = 0
    /\ cancelled = FALSE
    /\ stopAt = NeverStops
    /\ pc = "test"
    /\ Fresh

Init == AttemptInit \/ TestInit

\* ------------------------------------------------------------- context
\* Cancelling records where the traversal stood (for the claims).
Fire ==
    /\ cancelled' = TRUE
    /\ cancelPc' = pc
    /\ cancelLen' = Len(yielded)

\* The owner of a WithCancel context calls its cancel function.
Cancel ==
    /\ ctxKind = "cancel"
    /\ ~cancelled
    /\ pc \notin {"done", "panic"}
    /\ Fire
    /\ UNCHANGED <<cfgVars, cleft, pc, i, d, ticking, tleft, histVars, why, got,
                   elapsed>>

\* The deadline of a WithTimeout context is reached.
Timeout ==
    /\ ctxKind = "timeout"
    /\ ~cancelled
    /\ cleft = 0
    /\ pc \notin {"done", "panic"}
    /\ Fire
    /\ UNCHANGED <<cfgVars, cleft, pc, i, d, ticking, tleft, histVars, why, got,
                   elapsed>>

\* A deadline that is due and has not fired yet.
DeadlineDue == ctxKind = "timeout" /\ ~cancelled /\ cleft = 0
DeadlineRuns == ctxKind = "timeout" /\ ~cancelled /\ cleft > 0
TimerDueAtOnce == ticking
TimerDue == ticking /\ tleft = 0
TimerRuns == ticking /\ tleft > 0

\* One unit of time passes while the traversal waits in the select. Time
\* does not pass over a due timer or a due deadline.
Tick ==
    /\ pc = "select"
    /\ ~DeadlineDue
    /\ ~TimerDue
    /\ DeadlineRuns \/ TimerRuns
    /\ cleft' = IF DeadlineRuns THEN cleft - 1 ELSE cleft
    /\ tleft' = IF TimerRuns THEN tleft - 1 ELSE tleft
    /\ elapsed' = elapsed + 1
    /\ UNCHANGED <<cfgVars, cancelled, pc, i, d, ticking, histVars, why,
                   cancelPc, cancelLen, got>>

\* ------------------------------------------------------------- Attempt
\* retry.go:82-84
CheckCtxSkipped ==
    /\ pc = "check"
    /\ pc' = "delay"
    /\ why' = why
CheckCtxInverted ==
    /\ pc = "check"
    /\ IF ~cancelled
         THEN pc' = "done" /\ why' = "cancelled at check"
         ELSE pc' = "delay" /\ why' = why
CheckCtxAfterFirst ==
    /\ pc = "check"
    /\ IF cancelled /\ i > 0
         THEN pc' = "done" /\ why' = "cancelled at check"
         ELSE pc' = "delay" /\ why' = why
CheckCtx ==
    /\ pc = "check"
    /\ IF cancelled
         THEN pc' = "done" /\ why' = "cancelled at check"
         ELSE pc' = "delay" /\ why' = why

CheckStep ==
    /\ CheckCtx
    /\ UNCHANGED <<cfgVars, ctxVars, i, d, ticking, tleft, histVars, got, elapsed>>

\* retry.go:85
CallDelay ==
    /\ pc = "delay"
    /\ delayCalls' = delayCalls + 1
    /\ IF DelayPanics(b, i)
         THEN /\ pc' = "panic"
              /\ why' = "panic"
              /\ d' = d
         ELSE /\ pc' = "yield"
              /\ why' = why
              /\ \E r \in DelayDraws(b) : d' = Delay(b, i, r)
    /\ UNCHANGED <<cfgVars, ctxVars, i, ticking, tleft, yielded, waits, got, elapsed>>

\* The loop body of the consumer: it breaks at index stopAt.
ConsumerContinues(idx, dur) == idx # stopAt

\* retry.go:86-88
YieldIgnoringBreak ==
    /\ pc = "yield"
    /\ yielded' = Append(yielded, [i |-> i, d |-> d])
    /\ pc' = "zero"
    /\ why' = why
Yield ==
    /\ pc = "yield"
    /\ yielded' = Append(yielded, [i |-> i, d |-> d])
    /\ IF ConsumerContinues(i, d)
         THEN pc' = "zero" /\ why' = why
         ELSE pc' = "done" /\ why' = "break"

YieldStep ==
    /\ Yield
    /\ UNCHANGED <<cfgVars, ctxVars, i, d, ticking, tleft, delayCalls, waits, got,
                   elapsed>>

\* retry.go:90-93 and 96: d == 0 returns; otherwise the select is entered
\* and time.Tick(d) evaluated, which returns nil for d <= 0.
ZeroCheckSkipped ==
    /\ pc = "zero"
    /\ pc' = "select" /\ why' = why
    /\ waits' = waits + 1
    /\ ticking' = (d > 0)
    /\ tleft' = IF d > 0 THEN d ELSE 0
    /\ elapsed' = 0
ZeroCheck ==
    /\ pc = "zero"
    /\ IF d = 0
         THEN /\ pc' = "done" /\ why' = "zero delay"
              /\ UNCHANGED <<waits, ticking, tleft, elapsed>>
         ELSE /\ pc' = "select" /\ why' = why
              /\ waits' = waits + 1
              /\ ticking' = (d > 0)
              /\ tleft' = IF d > 0 THEN d ELSE 0
              /\ elapsed' = 0

ZeroStep ==
    /\ ZeroCheck
    /\ UNCHANGED <<cfgVars, ctxVars, i, d, yielded, delayCalls, got>>

\* retry.go:94-95: case <-ctx.Done()
SelectDonePolled ==
    /\ pc = "select"
    /\ cancelled
    /\ TimerDue
    /\ pc' = "done"
    /\ why' = "cancelled in wait"
    /\ ticking' = FALSE
    /\ tleft' = 0
    /\ UNCHANGED <<cfgVars, ctxVars, i, d, histVars, got, elapsed>>
SelectDone ==
    /\ pc = "select"
    /\ cancelled
    /\ pc' = "done"
    /\ why' = "cancelled in wait"
    /\ ticking' = FALSE
    /\ tleft' = 0
    /\ UNCHANGED <<cfgVars, ctxVars, i, d, histVars, got, elapsed>>

\* retry.go:96-98 and 81: case <-time.Tick(d), then i++.
NextIndexStuck(n) == n
NextIndexSkips(n) == n + 2
NextIndex(n) == n + 1

SelectTick ==
    /\ pc = "select"
    /\ TimerDue
    /\ i < MaxAttempts
    /\ i' = NextIndex(i)
    /\ pc' = "check"
    /\ ticking' = FALSE
    /\ tleft' = 0
    /\ UNCHANGED <<cfgVars, ctxVars, d, histVars, why, got, elapsed>>

\* ---------------------------------------------------------- table test
\* for i := range test.i { got = append(got, test.backoff.Delay(i)) }
TestLoop ==
    /\ pc = "test"
    /\ i <= MaxAttempts
    /\ delayCalls' = delayCalls + 1
    /\ IF DelayPanics(b, i)
         THEN /\ pc' = "panic"
              /\ why' = "panic"
              /\ UNCHANGED <<i, d, got>>
         ELSE /\ \E r \in DelayDraws(b) : d' = Delay(b, i, r)
              /\ got' = Append(got, d')
              /\ i' = i + 1
              /\ UNCHANGED <<pc, why>>
    /\ UNCHANGED <<cfgVars, ctxVars, ticking, tleft, yielded, waits, elapsed>>

\* ---------------------------------------------------- second traversal
\* retry.go:80-81: the function Attempt returned is called again by a
\* second range loop over the same sequence; its i starts at 0. The loop
\* body may break at another index.
RestartIndexResumes(n) == n
RestartIndex(n) == 0

Restart ==
    /\ pc = "done"
    /\ traversal = 1
    /\ traversal' = 2
    /\ first' = yielded
    /\ stopAt' \in {NeverStops} \cup 0..MaxStop
    /\ pc' = "check"
    /\ i' = RestartIndex(i)
    /\ d' = 0
    /\ ticking' = FALSE
    /\ tleft' = 0
    /\ yielded' = <<>>
    /\ delayCalls' = 0
    /\ waits' = 0
    /\ why' = "running"
    /\ cancelPc' = IF cancelled THEN "before" ELSE "not"
    /\ cancelLen' = 0
    /\ elapsed' = 0
    /\ UNCHANGED <<b, ctxKind, timeout, cleft, cancelled, got>>

Next ==
    \/ CheckStep
    \/ CallDelay
    \/ YieldStep
    \/ ZeroStep
    \/ SelectDone
    \/ SelectTick
    \/ Tick
    \/ Cancel
    \/ Timeout
    \/ TestLoop

Spec == Init /\ [][Next]_vars

\* A sequence that is traversed, and then traversed again.
RestartNext ==
    \/ CheckStep
    \/ CallDelay
    \/ YieldStep
    \/ ZeroStep
    \/ SelectDone
    \/ SelectTick
    \/ Tick
    \/ Cancel
    \/ Timeout
    \/ Restart

\* The strategies traversed twice are the undecorated ones, whose delays
\* are a function of the index.
RestartInit ==
    /\ AttemptInit
    /\ b \in Plain

RestartSpec == RestartInit /\ [][RestartNext]_vars

\* A runnable goroutine is run, a due timer or deadline fires, time passes
\* and the consumer's loop body returns. The owner of a WithCancel context
\* need never cancel it.
Fairness ==
    /\ WF_vars(CheckStep)
    /\ WF_vars(CallDelay)
    /\ WF_vars(YieldStep)
    /\ WF_vars(ZeroStep)
    /\ WF_vars(SelectDone)
    /\ WF_vars(SelectTick)
    /\ WF_vars(Tick)
    /\ WF_vars(Timeout)
    /\ WF_vars(TestLoop)

\* The behaviours checked for liveness: the consumer breaks at MaxStop or
\* never; Jitter decorates Constant, under a consumer that breaks.
FairInit ==
    /\ Init
    /\ stopAt \in {NeverStops, MaxStop}
    /\ b.jitter => (b.B.kind = "Constant" /\ stopAt = MaxStop)

FairSpec == FairInit /\ [][Next]_vars /\ Fairness

\* -------------------------------------------------------------- claims
\* The states of a traversal of Attempt (not of a table test).
Traversing == pc \in {"check", "delay", "yield", "zero", "select", "done"}
Last == yielded[Len(yielded)]
Pair(n, dur) == [i |-> n, d |-> dur]

\* C1: in a traversal the first yielded pair has index 0 and every later
\* pair has the index of the pair before it plus 1: the k-th pair yielded
\* carries index k-1, whatever the strategy, the delays and the end.
C1_IndicesConsecutive ==
    /\ Len(yielded) > 0 => yielded[1].i = 0
    /\ \A k \in 1..(Len(yielded) - 1) : yielded[k + 1].i = yielded[k].i + 1
\* Three pairs have been yielded and the traversal has ended.
C1_Witness == Len(yielded) >= 3 /\ pc = "done"

\* C2: a yielded pair with delay 0 is the last pair of the traversal: no
\* pair with delay 0 precedes another pair, and once it is yielded the
\* traversal is at the d == 0 test or has returned, with no wait entered for
\* it and no further call of Delay, even when the consumer would go on. A
\* traversal over Constant(0) that yields at all yields exactly (0, 0).
C2_ZeroDelayIsLast ==
    /\ \A k \in 1..(Len(yielded) - 1) : yielded[k].d # 0
    /\ (Len(yielded) > 0 /\ Last.d = 0) =>
          /\ pc \in {"zero", "done"}
          /\ waits = Len(yielded) - 1
          /\ delayCalls = Len(yielded)
          /\ ~ticking
    /\ (b = [jitter |-> FALSE, J |-> 0, B |-> [kind |-> "Constant", D |-> 0, H |-> 1]]
            /\ pc = "done" /\ why # "cancelled at check") =>
          yielded = <<Pair(0, 0)>>
\* Constant(0), a consumer that never breaks: ended by the zero delay.
C2_Witness ==
    /\ b = [jitter |-> FALSE, J |-> 0, B |-> [kind |-> "Constant", D |-> 0, H |-> 1]]
    /\ stopAt = NeverStops
    /\ pc = "done"
    /\ why = "zero delay"
    /\ yielded = <<Pair(0, 0)>>

\* C3: when the context is cancelled while the traversal waits in the
\* select after pair i, no further pair is yielded and Delay is not called
\* again: the traversal can only return, through the Done case or, when
\* the timer case is taken, through the check at the top of the loop; it is
\* never stuck on the way.
C3_CancelInWaitEndsTraversal ==
    cancelPc = "select" =>
        /\ Len(yielded) = cancelLen
        /\ delayCalls = cancelLen
        /\ pc \in {"select", "check", "done"}
        /\ pc # "done" => ENABLED (SelectDone \/ CheckStep)
\* Cancelled during the wait, the select took the timer case: the traversal
\* stands at the check of the next index.
C3_Witness ==
    /\ cancelPc = "select"
    /\ pc = "check"
    /\ i = cancelLen
    /\ i > 0

\* C4: when the context is already cancelled as the traversal begins, no
\* pair is yielded and Delay is never called.
C4_CancelledAtStartYieldsNothing ==
    cancelPc = "before" =>
        /\ yielded = <<>>
        /\ delayCalls = 0
        /\ waits = 0
        /\ pc \in {"check", "done"}
\* Such a traversal has returned.
C4_Witness == cancelPc = "before" /\ pc = "done" /\ why = "cancelled at check"

\* C5: once the consumer has declined (it was handed the pair with its stop
\* index), the traversal has returned: that pair is the last one, no wait
\* was entered after it and Delay was not called again.
C5_BreakEndsTraversal ==
    (\E k \in 1..Len(yielded) : yielded[k].i = stopAt) =>
        /\ pc = "done"
        /\ Last.i = stopAt
        /\ delayCalls = Len(yielded)
        /\ waits = Len(yielded) - 1
        /\ ~ticking
\* The consumer broke at a later index than the first, after waits.
C5_Witness == why = "break" /\ Len(yielded) = 3 /\ stopAt = 2 /\ pc = "done"

\* Constant(c), undecorated.
ConstantOf(c) == [jitter |-> FALSE, J |-> 0, B |-> [kind |-> "Constant", D |-> c, H |-> 1]]

\* C6: a traversal over Constant(2) under a context whose timeout is 2 (the
\* delay and the timeout are the same duration; the context is live when
\* the traversal begins), with a consumer that does not break, has yielded
\* exactly 2 pairs when it returns.
C6_ExactlyTwoPairs ==
    (/\ b = ConstantOf(2)
     /\ ctxKind = "timeout" /\ timeout = 2 /\ cancelPc # "before"
     /\ stopAt = NeverStops
     /\ pc = "done") => Len(yielded) = 2

\* The traversal waits on the nil channel time.Tick returns for d <= 0 and
\* the context is not cancelled: only a cancellation can end the wait.
Blocked == pc = "select" /\ ~ticking /\ ~cancelled

\* C7: with an undecorated strategy whose delays at 0..k are all non-zero
\* (and computed without panic), no cancellation and a consumer that breaks
\* at index k: the j-th pair yielded is (j, Delay(j)), Delay has been called
\* once per pair, the traversal returns with exactly k+1 pairs and, until
\* then, is never blocked.
C7_Pre ==
    /\ Traversing
    /\ b \in Plain
    /\ ~cancelled
    /\ stopAt \in 0..MaxStop
    /\ \A j \in 0..stopAt : ~DelayPanics(b, j) /\ Delay(b, j, 0) # 0
C7_PairsAsComputed ==
    /\ \A k \in 1..Len(yielded) : yielded[k] = Pair(k - 1, Delay(b, k - 1, 0))
    /\ delayCalls = Len(yielded) + (IF pc = "yield" THEN 1 ELSE 0)
    /\ Len(yielded) <= stopAt + 1
    /\ pc = "done" => Len(yielded) = stopAt + 1
C7_StopsAtKWithAllPairs == C7_Pre => (C7_PairsAsComputed /\ ~Blocked)

\* C8: a traversal over Decay{I, H} with I >= 0 and H >= 1, a context that
\* is never cancelled and a consumer that never breaks returns: its last
\* pair has delay 0 and every pair before it a strictly positive delay.
C8_Pre ==
    /\ b \in Plain
    /\ b.B.kind = "Decay" /\ b.B.D >= 0 /\ b.B.H >= 1
    /\ ctxKind = "todo"
    /\ stopAt = NeverStops
C8_Ended ==
    /\ pc = "done"
    /\ why = "zero delay"
    /\ Len(yielded) > 0
    /\ Last.d = 0
    /\ \A k \in 1..(Len(yielded) - 1) : yielded[k].d > 0
C8_DecayTraversalTerminates == (pc = "check" /\ C8_Pre) => <>C8_Ended
\* Such a traversal has ended after positive delays and waits.
C8_Witness == C8_Pre /\ C8_Ended /\ Len(yielded) >= 4 /\ waits >= 3

\* x halved k times, each time rounding down.
RECURSIVE Halved(_, _)
Halved(x, k) == IF k = 0 THEN x ELSE Halved(x \div 2, k - 1)

\* A table test of an undecorated Decay{I, H} with H >= 1; got[k] is Delay(k-1).
C9_Pre == pc = "test" /\ b \in Plain /\ b.B.kind = "Decay" /\ b.B.H >= 1
C9_HalvedPerBlock ==
    /\ \A k \in 1..Len(got) : got[k] = Halved(b.B.D, (k - 1) \div b.B.H)
    /\ \A k, m \in 1..Len(got) :
          ((k - 1) \div b.B.H = (m - 1) \div b.B.H) => got[k] = got[m]
    /\ \A k \in 1..Len(got) :
          k + b.B.H <= Len(got) => got[k + b.B.H] = got[k] \div 2
    /\ b.B.D = 0 => \A k \in 1..Len(got) : got[k] = 0
C9_NeverLarger == \A k, m \in 1..Len(got) : k <= m => got[m] <= got[k]

\* C9 as stated: for Decay{I, H} with H >= 1 and every n, Delay(n) is I
\* halved floor(n/H) times, constant on each block of H indices, halved
\* (rounding down) from one block to the next, 0 throughout when I is 0,
\* and never larger than at a smaller index.
C9_AsStated == C9_Pre => (C9_HalvedPerBlock /\ C9_NeverLarger)

\* C9 as amended: the same, with "never larger than at a smaller index"
\* claimed for I >= 0 only (a negative I rises towards -1).
C9_DecayDelay == C9_Pre => (C9_HalvedPerBlock /\ (b.B.D >= 0 => C9_NeverLarger))
\* Decay{2, 2} has been asked for Delay(0..4): 2, 2, 1, 1, 0.
C9_Witness == C9_Pre /\ b.B.H = 2 /\ Len(got) >= 5 /\ got[1] = 2 /\ got[3] = 1 /\ got[5] = 0

\* d added m times in the duration type.
RECURSIVE Times(_, _)
Times(x, m) == IF m = 0 THEN 0 ELSE Wrap(Times(x, m - 1) + x)

RECURSIVE Doubled(_, _)
Doubled(x, n) == IF n = 0 THEN x ELSE Wrap(2 * Doubled(x, n - 1))

\* C11: for Exponential(d), Delay(n) is d * 2^n in the duration type (d
\* doubled n times; the exact product whenever it fits): Delay(0) is d and
\* each delay is the double of the delay of the index before.
C11_Exponential ==
    (pc = "test" /\ b \in Plain /\ b.B.kind = "Exponential") =>
        /\ \A k \in 1..Len(got) : got[k] = Doubled(b.B.D, k - 1)
        /\ \A k \in 1..Len(got) :
              (b.B.D * Pow2(k - 1) = Wrap(b.B.D * Pow2(k - 1))) =>
                  got[k] = b.B.D * Pow2(k - 1)
        /\ Len(got) > 0 => got[1] = b.B.D
        /\ \A k \in 1..(Len(got) - 1) : got[k + 1] = Wrap(2 * got[k])
\* Exponential(1): a table test has collected 1, 2, 4.
C11_Witness ==
    /\ pc = "test" /\ b \in Plain /\ b.B.kind = "Exponential" /\ b.B.D = 1
    /\ Len(got) >= 3 /\ got[1] = 1 /\ got[2] = 2 /\ got[3] = 4

\* Delay(n) - inner.Delay(n) of the call just made, in the duration type.
JitterOffset == Wrap(d - BaseDelay(b.B, i))
JitterCalled == b.jitter /\ pc = "yield"

\* C12 as stated: after every call of Jitter{spread, inner}.Delay(n), with
\* any draw, Delay(n) - inner.Delay(n) is at least -(spread/2) and less than
\* spread/2 (integer division), for even and for odd spread.
C12_AsStated ==
    JitterCalled => (0 - (b.J \div 2) <= JitterOffset /\ JitterOffset < b.J \div 2)

\* C12 as amended: Delay(n) - inner.Delay(n) is at least -(spread/2) and less
\* than spread - spread/2: for an even spread that is [-spread/2, spread/2),
\* for an odd spread the largest value is spread/2 itself.
C12_JitterRange ==
    JitterCalled =>
        (0 - (b.J \div 2) <= JitterOffset /\ JitterOffset < b.J - (b.J \div 2))
\* Jitter{2, inner} drew 0: the delay is inner's minus 1.
C12_Witness == JitterCalled /\ b.J = 2 /\ JitterOffset = 0 - 1

\* The largest value of the duration type.
MaxDuration == Pow2(DurBits - 1) - 1

\* A table test of an undecorated Constant, Linear or Exponential with a
\* base delay >= 0; got[k] is Delay(k-1).
C13_Pre ==
    /\ pc = "test" /\ b \in Plain
    /\ b.B.kind \in {"Constant", "Linear", "Exponential"}
    /\ b.B.D >= 0
\* The exact value of Delay(n), in the integers.
C13_Exact(n) ==
    CASE b.B.kind = "Constant" -> b.B.D
      [] b.B.kind = "Linear" -> b.B.D * (n + 1)
      [] b.B.kind = "Exponential" -> b.B.D * Pow2(n)

\* C13 as stated: for Constant, Linear and Exponential with a base delay
\* >= 0, Delay(n) is >= 0 for every n >= 0, durations being fixed-width
\* signed integers.
C13_AsStated == C13_Pre => \A k \in 1..Len(got) : got[k] >= 0

\* C13 as amended: the same for every n at which the exact value (d,
\* d * (n+1), d * 2^n) fits the duration type; beyond that the result wraps
\* around and can be negative.
C13_NonNegativeWhileFits ==
    C13_Pre => \A k \in 1..Len(got) : C13_Exact(k - 1) <= MaxDuration => got[k] >= 0
\* Linear(2) has been asked for Delay(0..2): 2, 4, 6 fit the duration type.
C13_Witness ==
    /\ C13_Pre /\ b.B.kind = "Linear" /\ b.B.D = 2
    /\ Len(got) = 3 /\ got[3] = 6 /\ C13_Exact(2) <= MaxDuration

\* C14: Delay(n) never panics, for Constant, Linear, Exponential, Decay with
\* H >= 1 and Jitter with any spread >= 0, spread 0 included, over any of
\* these.
C14_DelayNeverPanics ==
    ((b.B.kind = "Decay" => b.B.H >= 1) /\ b.J >= 0) => pc # "panic"

\* C15: after a negative delay has been yielded and the consumer has gone
\* on, the wait is a wait of zero: the timer case of the select is ready at
\* once, so that the next pair follows without any cancellation.
C15_NegativeDelayWaitsZero == (pc = "select" /\ d < 0) => TimerDue

\* C16: pair i+1 is not yielded before the delay of pair i has passed since
\* the wait after pair i began: when the traversal has left that wait for
\* the next index, and when it hands pair i+1 to the consumer, at least that
\* delay has elapsed. A wait left earlier was left by cancellation, and the
\* traversal has returned.
C16_NoPairBeforeDelayElapsed ==
    /\ (pc \in {"check", "delay"} /\ i > 0) => (d > 0 /\ elapsed >= d)
    /\ (pc = "yield" /\ i > 0) => (Last.i = i - 1 /\ elapsed >= Last.d)
    /\ (pc \in {"check", "delay", "done"} /\ waits > 0 /\ waits = Len(yielded)
            /\ elapsed < d) =>
          (pc = "done" /\ why = "cancelled in wait" /\ cancelled)
\* Pair 1 is about to be yielded, 2 units after the wait for pair (0, 2) began.
C16_Witness == pc = "yield" /\ i = 1 /\ Last = Pair(0, 2) /\ elapsed = 2

\* C17: a traversal that waits in the select with its context cancelled can
\* return at once, whatever the timer, and eventually has returned.
C17_CancelInWaitTerminates ==
    /\ []((pc = "select" /\ cancelled) => ENABLED SelectDone)
    /\ ((pc = "select" /\ cancelled) ~> (pc = "done"))
\* Cancelled during a wait of 2, the traversal returned before the timer was due.
C17_Witness ==
    /\ pc = "done" /\ why = "cancelled in wait" /\ cancelPc = "select"
    /\ d = 2 /\ elapsed < d

\* A strategy whose delay is strictly positive at every index the loop can
\* reach, whatever it draws.
C18_Positive ==
    \A n \in 0..MaxAttempts :
        ~DelayPanics(b, n) /\ \A r \in DelayDraws(b) : Delay(b, n, r) > 0

\* The pairs of all indices up to the model's last have been yielded.
C18_AllYielded ==
    /\ Len(yielded) = MaxAttempts + 1
    /\ \A k \in 0..MaxAttempts : yielded[k + 1].i = k

\* C18: with such a strategy, a context that is never cancelled and a
\* consumer that never breaks, the traversal never returns and the pair of
\* every index (up to the model's last) is eventually yielded.
C18_UnboundedTraversal ==
    (pc = "check" /\ ctxKind = "todo" /\ stopAt = NeverStops /\ C18_Positive) =>
        ([](pc \notin {"done", "panic"}) /\ <>C18_AllYielded)
\* Linear(1) has yielded the pairs of indices 0..3 and goes on.
C18_Witness ==
    /\ b \in Plain /\ b.B.kind = "Linear" /\ b.B.D = 1
    /\ stopAt = NeverStops /\ ~cancelled
    /\ Len(yielded) = 4 /\ Last = Pair(3, 4) /\ pc = "select"

\* The smaller of two numbers.
Min(x, y) == IF x <= y THEN x ELSE y

\* C19: a second traversal of the sequence starts again at index 0,
\* wherever the first one ended; with an undecorated strategy and a context
\* that is not cancelled, its pairs are the pairs of the first traversal, as
\* far as both went.
C19_SecondTraversalStartsOver ==
    traversal = 2 =>
        /\ Len(yielded) > 0 => yielded[1].i = 0
        /\ (yielded = <<>> /\ pc \in {"check", "delay", "yield"}) => i = 0
        /\ (b \in Plain /\ ~cancelled) =>
              \A k \in 1..Min(Len(first), Len(yielded)) : yielded[k] = first[k]
\* The first traversal ended at index 2 after waits; the second has yielded
\* the pairs of indices 0 and 1 again.
C19_Witness ==
    /\ traversal = 2 /\ b \in Plain /\ ~cancelled
    /\ Len(first) = 3 /\ first[3].i = 2
    /\ Len(yielded) = 2 /\ yielded = SubSeq(first, 1, 2)

\* C20: however a cancellation interleaves with the steps of the generator
\* (check, delay, yield, wait), at most one pair is yielded after it, and
\* only when it came between the check of the context and the yield.
C20_AtMostOnePairAfterCancel ==
    cancelled =>
        /\ Len(yielded) <= cancelLen + 1
        /\ Len(yielded) = cancelLen + 1 => cancelPc \in {"delay", "yield"}
\* The context was cancelled after the check of index 1 had passed; the
\* pair of index 1 was still yielded and the traversal has ended.
C20_Witness ==
    /\ cancelled /\ cancelPc \in {"delay", "yield"}
    /\ cancelLen = 1 /\ Len(yielded) = 2
    /\ pc = "done"

====
